---- MODULE Spec2Model ----
(***************************************************************************)
(* Model of crates/notedeck_columns/src/actionbar.rs: the note action      *)
(* executor (execute_note_action / execute_and_process_note_action), the   *)
(* zap helpers and the TimelineOpenResult / NewNotes processing.           *)
(*                                                                         *)
(* The collaborators that live in other files of the repository            *)
(* (TimelineCache, Timeline, Zaps, Accounts, wallet lookup, Ndb) are       *)
(* modelled from their contracts in the specification document.            *)
(***************************************************************************)
EXTENDS Integers, Sequences, FiniteSets, TLC

VARIABLES
    selected_account, \* accounts.get_selected_account_mut(): a pubkey or NoAccount
    wallets,          \* what get_wallet_for_mut resolves for each account
    columns,          \* columns.column(c): its router and its sheet_router
    timelines,        \* timeline_cache.timelines: the live feed instances
    zaps,             \* the payment subsystem: error ledger and issued sends
    pool,             \* the relay pool: relays and what was published to it
    unknown_ids,      \* the unknown-reference tracker
    router_action,    \* what the last execute_and_process_note_action returned
    timeline_res,     \* resp.timeline_res of the last dispatch
    calls,            \* collaborator calls made by the last dispatch, in order
    last,             \* the last operation performed and the column it was for
    prev,             \* the subsystems as they were when that operation began
    frames            \* how many operations have run so far

vars == <<selected_account, wallets, columns, timelines, zaps, pool,
          unknown_ids, router_action, timeline_res, calls, last, prev, frames>>

accounts_env == <<selected_account, wallets>>

env == <<accounts_env, columns>>

----------------------------------------------------------------------------
(* Bounds and input domains *)

\* how many operations one behaviour runs
MaxFrames == 2

Pubkeys == {"p1", "p2"}
NoteIds == {"n1", "n2"}
Roots == {"n1"}
Hashtags == {"h1"}
NoteKeys == {1, 2, 3}
\* the note keys a timeline open may find new
OpenNoteKeys == {1, 2}
Cols == {0}
SpecifiedMsats == {500, 5000}

None == [tag |-> "None"]
Some(x) == [tag |-> "Some", v |-> x]
Err == [tag |-> "Err"]
Ok(x) == [tag |-> "Ok", v |-> x]

NoAccount == "none"
NoWallet == None

----------------------------------------------------------------------------
(* Sequences of note keys *)

Range(s) == {s[i] : i \in 1..Len(s)}

Reverse(s) == [i \in 1..Len(s) |-> s[Len(s) + 1 - i]]

\* all sequences of distinct elements of S
RECURSIVE DistinctSeqs(_)
DistinctSeqs(S) ==
    IF S = {} THEN {<<>>}
    ELSE {<<>>} \cup UNION {{<<x>> \o t : t \in DistinctSeqs(S \ {x})} : x \in S}

\* the elements of s that are not in the set have, in the order of s
RECURSIVE Fresh(_, _)
Fresh(s, have) ==
    IF s = <<>> THEN <<>>
    ELSE IF s[1] \in have THEN Fresh(Tail(s), have)
         ELSE <<s[1]>> \o Fresh(Tail(s), have \cup {s[1]})

----------------------------------------------------------------------------
(* Types of the module *)

\* TimelineKind
Profile(pk) == [variant |-> "Profile", v |-> pk]
Thread(sel) == [variant |-> "Thread", v |-> sel]
Hashtag(h) == [variant |-> "Hashtag", v |-> h]
TimelineKinds ==
    {Profile(p) : p \in Pubkeys} \cup {Thread(r) : r \in Roots}
        \cup {Hashtag(h) : h \in Hashtags}

\* Route
RouteReply(n) == [route |-> "Reply", note |-> n]
RouteQuote(n) == [route |-> "Quote", note |-> n]
RouteTimeline(kind) == [route |-> "Timeline", kind |-> kind]
RouteCustomizeZapAmount(t) == [route |-> "CustomizeZapAmount", target |-> t]

\* RouterAction
GoBack == [ra |-> "GoBack"]
RouteTo(r) == [ra |-> "RouteTo", to |-> r]
RouteToSheet(r) == [ra |-> "RouteToSheet", to |-> r]

\* struct NewNotes
NewNotes(notes, id) == [id |-> id, notes |-> notes]

\* ZapTargetAmount
ZapTargetAmount(t, m) == [target |-> t, specified_msats |-> m]
ZapTargetAmounts ==
    {ZapTargetAmount(t, m) :
        t \in NoteIds, m \in {None} \cup {Some(x) : x \in SpecifiedMsats}}

\* the key of the payment error ledger
ZapKey(sender, target) == <<sender, target>>
ZapKeys == Pubkeys \X NoteIds

\* NoteAction
ActReply(n) == [action |-> "Reply", note_id |-> n]
ActProfile(pk) == [action |-> "Profile", pubkey |-> pk]
ActNote(n) == [action |-> "Note", note_id |-> n]
ActHashtag(h) == [action |-> "Hashtag", htag |-> h]
ActQuote(n) == [action |-> "Quote", note_id |-> n]
ActZapSend(ta) == [action |-> "Zap", zap |-> "Send", amount |-> ta]
ActZapClearError(t) == [action |-> "Zap", zap |-> "ClearError", target |-> t]
ActZapCustomizeAmount(t) ==
    [action |-> "Zap", zap |-> "CustomizeAmount", target |-> t]
ActContext(k) == [action |-> "Context", note_key |-> k]
ActMedia == [action |-> "Media"]

ZapActions ==
    {ActZapSend(ta) : ta \in ZapTargetAmounts}
        \cup {ActZapClearError(t) : t \in NoteIds}
        \cup {ActZapCustomizeAmount(t) : t \in NoteIds}

----------------------------------------------------------------------------
(* Collaborators defined outside actionbar.rs, after their contracts *)

\* accounts.get_selected_account_mut()
GetSelectedAccount == IF selected_account = NoAccount THEN None
                      ELSE Some(selected_account)

\* get_wallet_for_mut(accounts, global_wallet, sender): the wallet of the
\* account, with its configured default zap amount, if one can be resolved
GetWalletFor(sender) ==
    IF wallets[sender] = NoWallet THEN None
    ELSE Some([default_msats |-> wallets[sender].v])

\* zaps.send_error(sender, target, kind): record_failure, keyed by the pair
ZapsSendError(z, sender, target, kind) ==
    [z EXCEPT !.errors[ZapKey(sender, target)] = kind]

\* zaps.clear_error_for(sender, target): clear_failure
ZapsClearErrorFor(z, sender, target) ==
    [z EXCEPT !.errors[ZapKey(sender, target)] = "none"]

\* zaps.send_zap(sender, relays, target, msats): enqueue a send
ZapsSendZap(z, sender, relays, target, msats) ==
    [z EXCEPT !.sends = Append(@,
        [sender |-> sender, relays |-> relays, target |-> target,
         msats |-> msats])]

\* timeline_cache.timelines.get(id): the live instances with that key
Instances(tl, id) == {t \in tl : t.kind = id}

HasTimeline(tl, id) == Instances(tl, id) # {}

GetTimeline(tl, id) == CHOOSE t \in tl : t.kind = id

\* timeline_cache.open(.., kind): open the feed of the key or return the
\* existing one; new, the notes found new for it, becomes the open result
TimelineCacheOpen(tl, kind, new) ==
    [timelines |-> IF HasTimeline(tl, kind) THEN tl
                   ELSE tl \cup {[kind |-> kind, notes |-> <<>>]},
     res |-> IF new = <<>> THEN None ELSE Some(NewNotes(new, kind))]

\* timeline.insert(notes, .., reversed): merge the notes in the given or in
\* the reverse order, leaving out those the feed already holds
TimelineInsert(t, notes, reversed) ==
    [t EXCEPT !.notes =
        @ \o Fresh(IF reversed THEN Reverse(notes) ELSE notes, Range(@))]

\* what insert registers with the unknown-reference tracker: the references
\* of the notes that were new to the feed
InsertUnknownIds(t, notes) == Range(notes) \ Range(t.notes)

----------------------------------------------------------------------------
(* actionbar.rs *)

\* what one dispatch leaves behind: the subsystems it may write and the
\* NoteActionResponse
Response(tl, z, pl, tres, ract, cl) ==
    [timelines |-> tl, zaps |-> z, pool |-> pl,
     timeline_res |-> tres, router_action |-> ract, calls |-> cl]

\* an amount that never goes below the wallet's default
Msats_AtLeastDefault(target_amount, default_msats) ==
    IF target_amount.specified_msats = None THEN default_msats
    ELSE IF target_amount.specified_msats.v < default_msats THEN default_msats
    ELSE target_amount.specified_msats.v

\* send_zap: specified_msats.unwrap_or(default_msats)
Msats(target_amount, default_msats) ==
    IF target_amount.specified_msats = None THEN default_msats
    ELSE target_amount.specified_msats.v

\* send_zap
SendZap(sender, z, pl, target_amount, default_msats) ==
    LET zap_target == target_amount.target
        msats == Msats(target_amount, default_msats)
        sender_relays == pl.relays
    IN  [zaps |-> ZapsSendZap(z, sender, sender_relays, zap_target, msats),
         calls |-> <<[op |-> "send_zap", sender |-> sender,
                      relays |-> sender_relays, target |-> zap_target,
                      msats |-> msats]>>]

\* a clear that forgets to reach the ledger
ClearZapError_Nothing(sender, z, target) == [zaps |-> z, calls |-> <<>>]

\* clear_zap_error
ClearZapError(sender, z, target) ==
    [zaps |-> ZapsClearErrorFor(z, sender, target),
     calls |-> <<[op |-> "clear_error_for", sender |-> sender,
                  target |-> target]>>]

\* a missing wallet that is not reported
SendNoWallet_Silent(sender, z, target_amount) ==
    [zaps |-> z, router_action |-> None, calls |-> <<>>]

\* ZapAction::Send without a wallet: the let-else of get_wallet_for_mut
SendNoWallet(sender, z, target_amount) ==
    [zaps |-> ZapsSendError(z, sender, target_amount.target, "SenderNoWallet"),
     router_action |-> None,
     calls |-> <<[op |-> "send_error", sender |-> sender,
                  target |-> target_amount.target,
                  kind |-> "SenderNoWallet"]>>]

\* a send that always pops
SendRouterAction_Always(router_type) == Some(GoBack)

\* if let RouterType::Sheet = router_type { router_action = Some(GoBack) }
SendRouterAction(router_type) ==
    IF router_type = "Sheet" THEN Some(GoBack) ELSE None

\* a send that decides the pop before it resolves the wallet
ZapSend_PopFirst(sender, z, pl, target_amount, router_type) ==
    LET wallet == GetWalletFor(sender) IN
    IF wallet = None
    THEN [SendNoWallet(sender, z, target_amount) EXCEPT
              !.router_action = SendRouterAction(router_type)]
    ELSE LET sent == SendZap(sender, z, pl, target_amount,
                             wallet.v.default_msats)
         IN  [zaps |-> sent.zaps,
              router_action |-> SendRouterAction(router_type),
              calls |-> sent.calls]

\* ZapAction::Send
ZapSend(sender, z, pl, target_amount, router_type) ==
    LET wallet == GetWalletFor(sender) IN
    IF wallet = None THEN SendNoWallet(sender, z, target_amount)
    ELSE LET sent == SendZap(sender, z, pl, target_amount,
                             wallet.v.default_msats)
         IN  [zaps |-> sent.zaps,
              router_action |-> SendRouterAction(router_type),
              calls |-> sent.calls]

\* an amount screen pushed on the main stack instead of the sheet
CustomizeRouterAction_MainStack(target) ==
    Some(RouteTo(RouteCustomizeZapAmount(target)))

\* ZapAction::CustomizeAmount: route_to_sheet(Route::CustomizeZapAmount(target))
CustomizeRouterAction(target) ==
    Some(RouteToSheet(RouteCustomizeZapAmount(target)))

\* match &zap_action
ZapMatch(sender, zap_action, z, pl, router_type) ==
    CASE zap_action.zap = "Send" ->
            ZapSend(sender, z, pl, zap_action.amount, router_type)
      [] zap_action.zap = "ClearError" ->
            LET cleared == ClearZapError(sender, z, zap_action.target)
            IN  [zaps |-> cleared.zaps, router_action |-> None,
                 calls |-> cleared.calls]
      [] zap_action.zap = "CustomizeAmount" ->
            [zaps |-> z,
             router_action |-> CustomizeRouterAction(zap_action.target),
             calls |-> <<>>]

\* a dispatcher that falls back to the first account when none is selected
ExecuteZapAction_NoGate(cur_acc, zap_action, z, pl, router_type) ==
    ZapMatch(IF cur_acc = None THEN "p1" ELSE cur_acc.v, zap_action, z, pl,
             router_type)

\* NoteAction::Zap: nothing happens without a selected account
ExecuteZapAction(cur_acc, zap_action, z, pl, router_type) ==
    IF cur_acc = None
    THEN [zaps |-> z, router_action |-> None, calls |-> <<>>]
    ELSE ZapMatch(cur_acc.v, zap_action, z, pl, router_type)

\* a dispatcher that routes to the timeline only when the open found notes
OpenKind_RouteOnResult(kind, tl, z, pl, new) ==
    LET opened == TimelineCacheOpen(tl, kind, new) IN
    Response(opened.timelines, z, pl, opened.res,
             IF opened.res = None THEN None
             ELSE Some(RouteTo(RouteTimeline(kind))),
             <<[op |-> "open", kind |-> kind]>>)

\* a dispatcher that routes to the timeline without opening it
OpenKind_NoOpen(kind, tl, z, pl, new) ==
    Response(tl, z, pl, None, Some(RouteTo(RouteTimeline(kind))), <<>>)

\* NoteAction::Profile, NoteAction::Hashtag and the tail of NoteAction::Note:
\* route to the timeline of the kind and open it
OpenKind(kind, tl, z, pl, new) ==
    LET opened == TimelineCacheOpen(tl, kind, new) IN
    Response(opened.timelines, z, pl, opened.res,
             Some(RouteTo(RouteTimeline(kind))),
             <<[op |-> "open", kind |-> kind]>>)

\* a dispatcher that opens a thread rooted at the note itself when the root
\* is not resolved
OpenNote_Fallback(note_id, thread_selection, tl, z, pl, new) ==
    IF thread_selection = Err
    THEN OpenKind(Thread(note_id), tl, z, pl, new)
    ELSE OpenKind(Thread(thread_selection.v), tl, z, pl, new)

\* NoteAction::Note: ThreadSelection::from_note_id, then open the thread
OpenNote(note_id, thread_selection, tl, z, pl, new) ==
    IF thread_selection = Err
    THEN Response(tl, z, pl, None, None, <<>>)
    ELSE OpenKind(Thread(thread_selection.v), tl, z, pl, new)

\* a dispatcher that runs the context action whether or not the note is found
ContextAction_IgnoreErr(note, tl, z, pl, publish) ==
    Response(tl, z, [pl EXCEPT !.published = @ + publish], None, None,
             <<[op |-> "context_process",
                note_key |-> IF note = Err THEN 0 ELSE note.v]>>)

\* NoteAction::Context: ndb.get_note_by_key, then context.action.process
ContextAction(note, tl, z, pl, publish) ==
    IF note = Err
    THEN Response(tl, z, pl, None, None, <<>>)
    ELSE Response(tl, z, [pl EXCEPT !.published = @ + publish], None, None,
                  <<[op |-> "context_process", note_key |-> note.v]>>)

\* NoteAction::Reply: route_to(Route::reply(note_id))
ReplyAction(note_id, tl, z, pl) ==
    Response(tl, z, pl, None, Some(RouteTo(RouteReply(note_id))), <<>>)

\* a quote that opens the reply composer
QuoteAction_AsReply(note_id, tl, z, pl) == ReplyAction(note_id, tl, z, pl)

\* NoteAction::Quote: route_to(Route::quote(note_id))
QuoteAction(note_id, tl, z, pl) ==
    Response(tl, z, pl, None, Some(RouteTo(RouteQuote(note_id))), <<>>)

\* a media action that also closes the current screen
MediaAction_GoBack(tl, z, pl) ==
    Response(tl, z, pl, None, Some(GoBack), <<[op |-> "media_process"]>>)

\* NoteAction::Media: media_action.process(images)
MediaAction(tl, z, pl) ==
    Response(tl, z, pl, None, None, <<[op |-> "media_process"]>>)

\* execute_note_action; nd holds what the database and the opaque payloads
\* answer during this call
ExecuteNoteAction(action, tl, z, pl, router_type, nd) ==
    CASE action.action = "Reply" ->
            ReplyAction(action.note_id, tl, z, pl)
      [] action.action = "Profile" ->
            OpenKind(Profile(action.pubkey), tl, z, pl, nd.new)
      [] action.action = "Note" ->
            OpenNote(action.note_id, nd.thread, tl, z, pl, nd.new)
      [] action.action = "Hashtag" ->
            OpenKind(Hashtag(action.htag), tl, z, pl, nd.new)
      [] action.action = "Quote" ->
            QuoteAction(action.note_id, tl, z, pl)
      [] action.action = "Zap" ->
            LET r == ExecuteZapAction(GetSelectedAccount, action, z, pl,
                                      router_type)
            IN  Response(tl, r.zaps, pl, None, r.router_action, r.calls)
      [] action.action = "Context" ->
            ContextAction(nd.note, tl, z, pl, nd.publish)
      [] action.action = "Media" ->
            MediaAction(tl, z, pl)

\* a merge that reverses every kind but the thread
Reversed_Inverted(id) == id.variant # "Thread"

\* let reversed = matches!(&self.id, TimelineKind::Thread(_))
Reversed(id) == id.variant = "Thread"

\* a merge that makes the timeline when the cache has none for the key
NewNotesProcess_Create(new_notes, tl, unk, insert_ok) ==
    LET reversed == Reversed(new_notes.id)
        timeline == IF HasTimeline(tl, new_notes.id)
                    THEN GetTimeline(tl, new_notes.id)
                    ELSE [kind |-> new_notes.id, notes |-> <<>>]
    IN  [timelines |->
             (tl \ {timeline}) \cup
                 {TimelineInsert(timeline, new_notes.notes, reversed)},
         unknown_ids |-> unk \cup InsertUnknownIds(timeline, new_notes.notes),
         calls |-> <<[op |-> "insert", kind |-> new_notes.id,
                      notes |-> new_notes.notes, reversed |-> reversed,
                      ok |-> insert_ok]>>]

\* NewNotes::process
NewNotesProcess(new_notes, tl, unk, insert_ok) ==
    LET reversed == Reversed(new_notes.id) IN
    IF ~HasTimeline(tl, new_notes.id)
    THEN [timelines |-> tl, unknown_ids |-> unk, calls |-> <<>>]
    ELSE LET timeline == GetTimeline(tl, new_notes.id)
             call == [op |-> "insert", kind |-> new_notes.id,
                      notes |-> new_notes.notes, reversed |-> reversed,
                      ok |-> insert_ok]
         IN  IF insert_ok
             THEN [timelines |->
                       (tl \ {timeline}) \cup
                           {TimelineInsert(timeline, new_notes.notes, reversed)},
                   unknown_ids |->
                       unk \cup InsertUnknownIds(timeline, new_notes.notes),
                   calls |-> <<call>>]
             ELSE [timelines |-> tl, unknown_ids |-> unk, calls |-> <<call>>]

\* TimelineOpenResult::process
TimelineOpenResultProcess(res, tl, unk, insert_ok) ==
    NewNotesProcess(res, tl, unk, insert_ok)

\* the router_type block of execute_and_process_note_action
RouterTypeOf(col) ==
    IF columns[col].sheet_router # <<>> THEN "Sheet" ELSE "Stack"

\* the subsystems an operation may write
Subsystems ==
    [timelines |-> timelines, zaps |-> zaps, pool |-> pool,
     unknown_ids |-> unknown_ids]

\* a caller that returns without merging the result
ProcessTimelineRes_Skipped(resp, unk, insert_ok) ==
    [timelines |-> resp.timelines, unknown_ids |-> unk, calls |-> <<>>]

\* if let Some(br) = resp.timeline_res { br.process(..) }
ProcessTimelineRes(resp, unk, insert_ok) ==
    IF resp.timeline_res # None
    THEN TimelineOpenResultProcess(resp.timeline_res.v, resp.timelines, unk,
                                   insert_ok)
    ELSE [timelines |-> resp.timelines, unknown_ids |-> unk, calls |-> <<>>]

\* whether the insert of the merge returned an error
InsertFailed(done) == \E i \in 1..Len(done.calls) : ~done.calls[i].ok

\* a caller that gives up its instruction when the merge reports an error
ReturnedAction_Propagate(resp, done) ==
    IF InsertFailed(done) THEN None ELSE resp.router_action

\* the value of execute_and_process_note_action: resp.router_action
ReturnedAction(resp, done) == resp.router_action

\* a caller that applies the instruction to the column itself
ColumnsAfter_Applied(col, ract) ==
    IF ract = None THEN columns
    ELSE IF ract.v.ra = "GoBack"
         THEN [columns EXCEPT ![col].sheet_router = <<>>]
    ELSE IF ract.v.ra = "RouteToSheet"
         THEN [columns EXCEPT ![col].sheet_router = Append(@, ract.v.to)]
    ELSE [columns EXCEPT ![col].router = Append(@, ract.v.to)]

\* the columns as execute_and_process_note_action leaves them: it borrows
\* them to read sheet_router.route() and writes nothing
ColumnsAfter(col, ract) == columns

\* execute_and_process_note_action
ExecuteAndProcessNoteAction(action, col, nd) ==
    LET router_type == RouterTypeOf(col)
        resp == ExecuteNoteAction(action, timelines, zaps, pool, router_type, nd)
        done == ProcessTimelineRes(resp, unknown_ids, nd.insert_ok)
    IN  /\ frames < MaxFrames
        /\ frames' = frames + 1
        /\ timelines' = done.timelines
        /\ unknown_ids' = done.unknown_ids
        /\ zaps' = resp.zaps
        /\ pool' = resp.pool
        /\ timeline_res' = resp.timeline_res
        /\ router_action' = ReturnedAction(resp, done)
        /\ columns' = ColumnsAfter(col, router_action')
        /\ calls' = resp.calls \o done.calls
        /\ last' = [op |-> "dispatch", action |-> action, col |-> col,
                     nd |-> nd]
        /\ prev' = Subsystems
        /\ UNCHANGED accounts_env

----------------------------------------------------------------------------
(* The operations *)

NoNd == [thread |-> Err, new |-> <<>>, note |-> Err, publish |-> 0,
         insert_ok |-> TRUE]

\* what a timeline open may find new: nothing, or notes in some order
OpenBatches == DistinctSeqs(OpenNoteKeys)

\* whether the insert of a batch succeeds: asked only when there is one
InsertResults(new) == IF new = <<>> THEN {TRUE} ELSE BOOLEAN

\* the note lists a result may carry
NewBatches == DistinctSeqs(NoteKeys) \ {<<>>}

DispatchReply ==
    \E n \in NoteIds, col \in Cols :
        ExecuteAndProcessNoteAction(ActReply(n), col, NoNd)

DispatchQuote ==
    \E n \in NoteIds, col \in Cols :
        ExecuteAndProcessNoteAction(ActQuote(n), col, NoNd)

DispatchProfile ==
    \E pk \in Pubkeys, col \in Cols, new \in OpenBatches :
      \E ok \in InsertResults(new) :
        ExecuteAndProcessNoteAction(ActProfile(pk), col,
            [NoNd EXCEPT !.new = new, !.insert_ok = ok])

DispatchHashtag ==
    \E h \in Hashtags, col \in Cols, new \in OpenBatches :
      \E ok \in InsertResults(new) :
        ExecuteAndProcessNoteAction(ActHashtag(h), col,
            [NoNd EXCEPT !.new = new, !.insert_ok = ok])

DispatchNote ==
    \E n \in NoteIds, col \in Cols :
        \/ ExecuteAndProcessNoteAction(ActNote(n), col, NoNd)
        \/ \E r \in Roots, new \in OpenBatches :
             \E ok \in InsertResults(new) :
               ExecuteAndProcessNoteAction(ActNote(n), col,
                   [NoNd EXCEPT !.thread = Ok(r), !.new = new, !.insert_ok = ok])

DispatchZap ==
    \E za \in ZapActions, col \in Cols :
        ExecuteAndProcessNoteAction(za, col, NoNd)

DispatchContext ==
    \E k \in OpenNoteKeys, col \in Cols, publish \in {0, 1},
       found \in BOOLEAN :
        ExecuteAndProcessNoteAction(ActContext(k), col,
            [NoNd EXCEPT !.note = IF found THEN Ok(k) ELSE Err,
                         !.publish = publish])

DispatchMedia ==
    \E col \in Cols : ExecuteAndProcessNoteAction(ActMedia, col, NoNd)

\* TimelineOpenResult::process called on a result by another caller
ProcessResult ==
    \E id \in TimelineKinds, notes \in NewBatches, ok \in BOOLEAN :
        LET res == NewNotes(notes, id)
            done == TimelineOpenResultProcess(res, timelines, unknown_ids, ok)
        IN  /\ timelines' = done.timelines
            /\ unknown_ids' = done.unknown_ids
            /\ calls' = done.calls
            /\ timeline_res' = Some(res)
            /\ router_action' = None
            /\ last' = [op |-> "process"]
            /\ prev' = Subsystems
            /\ UNCHANGED <<env, zaps, pool, frames>>

\* the accounts and their wallets: an account with a wallet and one without
WalletConfigs ==
    {[p \in Pubkeys |-> IF p = "p1" THEN Some(1000) ELSE NoWallet],
     [p \in Pubkeys |-> IF p = "p2" THEN Some(3000) ELSE NoWallet]}

\* a column: a main stack showing a timeline, and a sheet that is closed or
\* shows the amount screen
ColumnStates ==
    {[router |-> <<RouteTimeline(Hashtag("h1"))>>, sheet_router |-> sheet] :
        sheet \in {<<>>, <<RouteCustomizeZapAmount("n1")>>}}

InitEnv ==
    /\ selected_account \in Pubkeys \cup {NoAccount}
    /\ wallets \in WalletConfigs
    /\ columns \in [Cols -> ColumnStates]

Init ==
    /\ InitEnv
    /\ timelines = {}
    /\ zaps = [errors |-> [k \in ZapKeys |-> "none"], sends |-> <<>>]
    /\ pool = [relays |-> <<"wss://r1">>, published |-> 0]
    /\ unknown_ids = {}
    /\ router_action = None
    /\ timeline_res = None
    /\ calls = <<>>
    /\ last = [op |-> "init"]
    /\ prev = Subsystems
    /\ frames = 0

Next ==
    \/ DispatchReply
    \/ DispatchQuote
    \/ DispatchProfile
    \/ DispatchHashtag
    \/ DispatchNote
    \/ DispatchZap
    \/ DispatchContext
    \/ DispatchMedia

Spec == Init /\ [][Next]_vars

\* NewNotes::process on its own: every result against a cache that holds no
\* feed or one feed
InitProcess ==
    /\ selected_account = NoAccount
    /\ wallets = [p \in Pubkeys |-> NoWallet]
    /\ columns = [c \in Cols |->
                      [router |-> <<RouteTimeline(Hashtag("h1"))>>,
                       sheet_router |-> <<>>]]
    /\ timelines \in {{}} \cup {{[kind |-> k, notes |-> <<>>]} : k \in TimelineKinds}
    /\ zaps = [errors |-> [k \in ZapKeys |-> "none"], sends |-> <<>>]
    /\ pool = [relays |-> <<"wss://r1">>, published |-> 0]
    /\ unknown_ids = {}
    /\ router_action = None
    /\ timeline_res = None
    /\ calls = <<>>
    /\ last = [op |-> "init"]
    /\ prev = Subsystems
    /\ frames = 0

NextProcess == ProcessResult

SpecProcess == InitProcess /\ [][NextProcess]_vars

----------------------------------------------------------------------------
(* Properties *)

Dispatched(a) == last.op = "dispatch" /\ last.action.action = a

ZapDispatched(z) == Dispatched("Zap") /\ last.action.zap = z

ModalActive == columns[last.col].sheet_router # <<>>

HasAccount == selected_account # NoAccount

HasWallet == HasAccount /\ wallets[selected_account] # NoWallet

CallsOf(op) == {i \in 1..Len(calls) : calls[i].op = op}

\* C1: a tip action (Send, ClearError, CustomizeAmount) dispatched while no
\* account is selected does nothing: no navigation instruction, no feed
\* result, no collaborator call (no failure recorded, no send), and the
\* payment subsystem, the feed cache, the relay pool and the tracker are as
\* they were, whatever the wallets and the sheet are.
C1_TipWithoutAccountIsNoOp ==
    (Dispatched("Zap") /\ ~HasAccount) =>
        /\ router_action = None
        /\ timeline_res = None
        /\ calls = <<>>
        /\ zaps = prev.zaps
        /\ timelines = prev.timelines
        /\ pool = prev.pool
        /\ unknown_ids = prev.unknown_ids

C1_Witness ==
    /\ ZapDispatched("Send")
    /\ ~HasAccount
    /\ ModalActive
    /\ timelines # {}
    /\ \E p \in Pubkeys : wallets[p] # NoWallet

\* C3: a Send with a selected account for which no wallet is resolved makes
\* exactly one collaborator call, the report of SenderNoWallet for
\* (sender, target); the ledger then holds that failure under the pair, its
\* other entries are as before, and no send was issued.
C3_SendWithoutWalletRecordsOneFailure ==
    (ZapDispatched("Send") /\ HasAccount /\ ~HasWallet) =>
        LET target == last.action.amount.target IN
        /\ calls = <<[op |-> "send_error", sender |-> selected_account,
                      target |-> target, kind |-> "SenderNoWallet"]>>
        /\ zaps.errors =
               [prev.zaps.errors EXCEPT
                   ![ZapKey(selected_account, target)] = "SenderNoWallet"]
        /\ zaps.sends = prev.zaps.sends

C3_Witness ==
    /\ ZapDispatched("Send")
    /\ HasAccount
    /\ ~HasWallet
    /\ prev.zaps.errors[ZapKey(selected_account, last.action.amount.target)]
           = "none"
    /\ zaps.errors[ZapKey(selected_account, last.action.amount.target)]
           = "SenderNoWallet"

\* C4: a Send with a selected account and a resolved wallet issues the tip
\* (one send_zap call, one more send enqueued); it returns GoBack when the
\* sheet router of the column has an active route and no navigation
\* instruction when it has none.
C4_SendPopsModalOnlyWhenActive ==
    (ZapDispatched("Send") /\ HasWallet) =>
        /\ Len(calls) = 1
        /\ calls[1].op = "send_zap"
        /\ Len(zaps.sends) = Len(prev.zaps.sends) + 1
        /\ router_action = IF ModalActive THEN Some(GoBack) ELSE None

C4_Witness ==
    /\ ZapDispatched("Send")
    /\ HasWallet
    /\ ModalActive
    /\ router_action = Some(GoBack)
    /\ Len(zaps.sends) = 1

\* C5: the amount of a successful Send, as passed to send_zap and as
\* enqueued, is the caller's amount whenever one is specified (also when it
\* is below or above the default) and the default amount of the sender's
\* wallet exactly when none is specified.
C5_SendAmount ==
    (ZapDispatched("Send") /\ HasWallet) =>
        LET amount == last.action.amount
            expected == IF amount.specified_msats = None
                        THEN wallets[selected_account].v
                        ELSE amount.specified_msats.v
        IN  /\ \A i \in CallsOf("send_zap") :
                   /\ calls[i].msats = expected
                   /\ calls[i].target = amount.target
                   /\ calls[i].sender = selected_account
            /\ CallsOf("send_zap") # {}
            /\ zaps.sends[Len(zaps.sends)].msats = expected

C5_Witness ==
    /\ ZapDispatched("Send")
    /\ HasWallet
    /\ last.action.amount.specified_msats # None
    /\ last.action.amount.specified_msats.v < wallets[selected_account].v
    /\ zaps.sends[Len(zaps.sends)].msats = last.action.amount.specified_msats.v

\* C6: ClearError(target) with a selected account leaves the ledger without
\* a failure for (sender, target) and with its other entries as they were,
\* so it changes nothing when none was recorded; it issues no send and
\* returns no navigation instruction and no feed result.
C6_ClearErrorRemovesFailure ==
    (ZapDispatched("ClearError") /\ HasAccount) =>
        LET key == ZapKey(selected_account, last.action.target) IN
        /\ zaps.errors[key] = "none"
        /\ zaps.errors = [prev.zaps.errors EXCEPT ![key] = "none"]
        /\ zaps.sends = prev.zaps.sends
        /\ (prev.zaps.errors[key] = "none" => zaps = prev.zaps)
        /\ router_action = None
        /\ timeline_res = None

C6_Witness ==
    /\ ZapDispatched("ClearError")
    /\ HasAccount
    /\ prev.zaps.errors[ZapKey(selected_account, last.action.target)]
           = "SenderNoWallet"
    /\ zaps.errors[ZapKey(selected_account, last.action.target)] = "none"

\* C7: an OpenThread whose thread root is not resolved returns no
\* navigation instruction and no feed result, does not call open on the
\* feed cache, and leaves the cache, keys and contents, as it was.
C7_UnresolvedThreadIsNoOp ==
    (Dispatched("Note") /\ last.nd.thread = Err) =>
        /\ router_action = None
        /\ timeline_res = None
        /\ CallsOf("open") = {}
        /\ timelines = prev.timelines

C7_Witness ==
    /\ Dispatched("Note")
    /\ last.nd.thread = Err
    /\ timelines # {}
    /\ \E t \in timelines : t.notes # <<>>

\* C8: the feed cache never holds two live instances of one key, and after
\* an OpenProfile(p), a first or a repeated one, it holds exactly one
\* instance keyed Profile(p).
C8_OneFeedPerKey ==
    /\ \A k \in TimelineKinds : Cardinality(Instances(timelines, k)) <= 1
    /\ Dispatched("Profile") =>
           Cardinality(Instances(timelines, Profile(last.action.pubkey))) = 1

C8_Witness ==
    /\ Dispatched("Profile")
    /\ HasTimeline(prev.timelines, Profile(last.action.pubkey))
    /\ GetTimeline(prev.timelines, Profile(last.action.pubkey)).notes # <<>>
    /\ Cardinality(Instances(timelines, Profile(last.action.pubkey))) = 1
    /\ Cardinality(timelines) = 1

FailedLookup ==
    \/ Dispatched("Note") /\ last.nd.thread = Err
    \/ Dispatched("Context") /\ last.nd.note = Err

NoAccountTip == Dispatched("Zap") /\ ~HasAccount

NoWalletSend == ZapDispatched("Send") /\ HasAccount /\ ~HasWallet

\* C10 as stated: every failure path of a dispatch (thread root not
\* resolved, note not found, no selected account, no wallet) leaves every
\* subsystem as it was before the call.
C10_Original ==
    (FailedLookup \/ NoAccountTip \/ NoWalletSend) => Subsystems = prev

\* C10 as amended: the failed lookups and the tip without an account leave
\* every subsystem as it was; the Send without a wallet changes the payment
\* error ledger alone, by the SenderNoWallet failure of (sender, target),
\* and leaves the sends, the feed cache, the relay pool and the tracker as
\* they were.
C10_FailurePathsKeepState ==
    /\ (FailedLookup \/ NoAccountTip) => Subsystems = prev
    /\ NoWalletSend =>
           /\ Subsystems =
                  [prev EXCEPT
                      !.zaps.errors[ZapKey(selected_account,
                                           last.action.amount.target)] =
                          "SenderNoWallet"]

C10_Witness ==
    /\ Dispatched("Context")
    /\ last.nd.note = Err
    /\ last.nd.publish = 1
    /\ timelines # {}
    /\ Subsystems = prev

----------------------------------------------------------------------------
(* Properties of NewNotes::process *)

Processed == last.op = "process"

\* C2: when a result is processed whose key the cache holds, its notes are
\* handed to insert once, with reversed = TRUE exactly for a Thread key; a
\* list of 3 distinct notes inserted into an empty feed is stored reversed
\* in a Thread feed and as given in a Profile or Hashtag feed.
C2_ReverseOnlyForThread ==
    (Processed /\ HasTimeline(prev.timelines, timeline_res.v.id)) =>
        LET res == timeline_res.v
            thread == res.id.variant = "Thread"
            before == GetTimeline(prev.timelines, res.id)
        IN  /\ Len(calls) = 1
            /\ calls[1].op = "insert"
            /\ calls[1].kind = res.id
            /\ calls[1].notes = res.notes
            /\ calls[1].reversed = thread
            /\ (calls[1].ok /\ before.notes = <<>> /\ Len(res.notes) = 3) =>
                   GetTimeline(timelines, res.id).notes =
                       IF thread THEN Reverse(res.notes) ELSE res.notes

C2_Witness ==
    /\ Processed
    /\ timeline_res.v = NewNotes(<<1, 3, 2>>, Thread("n1"))
    /\ HasTimeline(prev.timelines, Thread("n1"))
    /\ GetTimeline(prev.timelines, Thread("n1")).notes = <<>>
    /\ calls[1].reversed
    /\ GetTimeline(timelines, Thread("n1")).notes = <<2, 3, 1>>

\* C9: processing a result whose key the cache does not hold does nothing:
\* no instance is made for the key, insert is not called, the feeds are as
\* they were and nothing reaches the unknown-reference tracker.
C9_AbsentKeyIsNoOp ==
    (Processed /\ ~HasTimeline(prev.timelines, timeline_res.v.id)) =>
        /\ ~HasTimeline(timelines, timeline_res.v.id)
        /\ calls = <<>>
        /\ timelines = prev.timelines
        /\ unknown_ids = prev.unknown_ids

C9_Witness ==
    /\ Processed
    /\ ~HasTimeline(prev.timelines, timeline_res.v.id)
    /\ \E t \in timelines : t.notes # <<>>
    /\ timelines = prev.timelines

----------------------------------------------------------------------------
(* Properties of the dispatcher, continued *)

OpenDispatched ==
    Dispatched("Profile") \/ Dispatched("Hashtag") \/ Dispatched("Note")

\* the key an OpenProfile or OpenHashtag is about
OpenedKind ==
    IF last.action.action = "Profile" THEN Profile(last.action.pubkey)
    ELSE Hashtag(last.action.htag)

\* C11 as stated: both tip precondition failures, the tip action without a
\* selected account and the Send without a wallet, report a failure to the
\* payment error ledger.
C11_Original ==
    (NoAccountTip \/ NoWalletSend) => CallsOf("send_error") # {}

\* C11 as amended: of the two, the Send without a wallet alone is stored
\* as a failure record under (sender, target); the tip action without a
\* selected account reports nothing and leaves the ledger as it was.
C11_OnlyMissingWalletIsRecorded ==
    /\ NoWalletSend =>
           /\ CallsOf("send_error") # {}
           /\ zaps.errors[ZapKey(selected_account, last.action.amount.target)]
                  = "SenderNoWallet"
    /\ NoAccountTip =>
           /\ CallsOf("send_error") = {}
           /\ zaps.errors = prev.zaps.errors

C11_Witness ==
    /\ ZapDispatched("Send")
    /\ ~HasAccount
    /\ \A k \in ZapKeys : zaps.errors[k] = "none"
    /\ calls = <<>>
    /\ \E p \in Pubkeys : wallets[p] = NoWallet

\* C12: OpenProfile(pubkey) and OpenHashtag(tag) return the push to the
\* timeline of Profile(pubkey), Hashtag(tag), and ask the feed cache to
\* open that same key, which the cache then holds; the push is returned
\* whether or not the open yields a result.
C12_OpenRoutesAndOpensSameKey ==
    (Dispatched("Profile") \/ Dispatched("Hashtag")) =>
        /\ router_action = Some(RouteTo(RouteTimeline(OpenedKind)))
        /\ Len(calls) >= 1
        /\ calls[1] = [op |-> "open", kind |-> OpenedKind]
        /\ Cardinality(CallsOf("open")) = 1
        /\ HasTimeline(timelines, OpenedKind)
        /\ timeline_res # None => timeline_res.v.id = OpenedKind

C12_Witness ==
    /\ Dispatched("Hashtag")
    /\ timeline_res = None
    /\ router_action = Some(RouteTo(RouteTimeline(Hashtag("h1"))))
    /\ HasTimeline(prev.timelines, Hashtag("h1"))

\* C13: Reply(note) and Quote(note) only navigate: in every state they
\* return the push to the reply, the quote composer of that note, return no
\* feed result, call no collaborator and leave the feed cache, the payment
\* subsystem, the relay pool and the tracker as they were.
C13_ReplyAndQuoteOnlyNavigate ==
    /\ Dispatched("Reply") =>
           router_action = Some(RouteTo(RouteReply(last.action.note_id)))
    /\ Dispatched("Quote") =>
           router_action = Some(RouteTo(RouteQuote(last.action.note_id)))
    /\ (Dispatched("Reply") \/ Dispatched("Quote")) =>
           /\ timeline_res = None
           /\ calls = <<>>
           /\ Subsystems = prev

C13_Witness ==
    /\ Dispatched("Quote")
    /\ router_action = Some(RouteTo(RouteQuote("n2")))
    /\ HasAccount
    /\ ModalActive
    /\ timelines # {}

\* C14: CustomizeAmount(target) with a selected account returns the
\* instruction that opens the amount screen of the target in the sheet,
\* with or without a wallet, issues no send and leaves the payment
\* subsystem as it was.
C14_CustomizeAmountOpensSheet ==
    (ZapDispatched("CustomizeAmount") /\ HasAccount) =>
        /\ router_action =
               Some(RouteToSheet(RouteCustomizeZapAmount(last.action.target)))
        /\ calls = <<>>
        /\ zaps = prev.zaps

C14_Witness ==
    /\ ZapDispatched("CustomizeAmount")
    /\ HasAccount
    /\ ~HasWallet
    /\ router_action = Some(RouteToSheet(RouteCustomizeZapAmount("n2")))
    /\ \E k \in ZapKeys : zaps.errors[k] # "none"

\* C15: for a ContextAction the payload's routine runs once, on the note
\* of the payload's key, exactly when the lookup succeeds; when it fails
\* the routine does not run and the relay pool is as it was. Either way no
\* navigation instruction and no feed result is returned.
C15_ContextRunsOnlyOnFoundNote ==
    Dispatched("Context") =>
        /\ router_action = None
        /\ timeline_res = None
        /\ last.nd.note # Err =>
               calls = <<[op |-> "context_process",
                          note_key |-> last.action.note_key]>>
        /\ last.nd.note = Err => (calls = <<>> /\ pool = prev.pool)

C15_Witness ==
    /\ Dispatched("Context")
    /\ last.nd.note # Err
    /\ Len(calls) = 1
    /\ pool.published = prev.pool.published + 1

\* C16: when the insert of the merge returns an error, the call still ends
\* and still returns the push that the dispatcher made for the intent.
C16_InsertErrorIsAbsorbed ==
    (OpenDispatched /\ \E i \in CallsOf("insert") : ~calls[i].ok) =>
        /\ timeline_res # None
        /\ router_action = Some(RouteTo(RouteTimeline(timeline_res.v.id)))

C16_Witness ==
    /\ Dispatched("Profile")
    /\ \E i \in CallsOf("insert") : ~calls[i].ok
    /\ router_action = Some(RouteTo(RouteTimeline(Profile("p2"))))
    /\ HasTimeline(prev.timelines, Profile("p2"))

\* C17: a Send for which no wallet is resolved returns no navigation
\* instruction, also when the sheet of the column has an active route.
C17_NoPopWithoutWallet ==
    NoWalletSend => router_action = None

C17_Witness ==
    /\ NoWalletSend
    /\ ModalActive
    /\ router_action = None
    /\ CallsOf("send_error") # {}

\* C18: every intent other than OpenProfile, OpenThread and OpenHashtag
\* ends with no feed result, no open and no insert call, and the feed cache
\* and the tracker as they were; MediaAction also returns no navigation
\* instruction.
C18_OnlyOpensTouchFeeds ==
    /\ (last.op = "dispatch" /\ ~OpenDispatched) =>
           /\ timeline_res = None
           /\ CallsOf("open") = {}
           /\ CallsOf("insert") = {}
           /\ timelines = prev.timelines
           /\ unknown_ids = prev.unknown_ids
    /\ Dispatched("Media") => router_action = None

C18_Witness ==
    /\ Dispatched("Media")
    /\ router_action = None
    /\ calls = <<[op |-> "media_process"]>>
    /\ \E t \in timelines : t.notes # <<>>
    /\ unknown_ids # {}

\* C19: no call changes the navigation state: the router and the sheet
\* router of every column are after a call what they were before it, for
\* every intent; the instruction is returned unapplied.
C19_NavigationUntouched == [][columns' = columns]_vars

C19_Witness ==
    /\ ZapDispatched("CustomizeAmount")
    /\ HasAccount
    /\ router_action # None
    /\ columns[last.col].sheet_router = <<>>

\* C20: when a call for an open intent returns its push and the open found
\* new notes, those notes were handed to the insert of that key's feed
\* within the call, and a successful insert left all of them in the feed.
C20_MergedBeforeReturn ==
    (OpenDispatched /\ router_action # None /\ timeline_res # None) =>
        LET res == timeline_res.v IN
        /\ HasTimeline(timelines, res.id)
        /\ \E i \in CallsOf("insert") :
               /\ calls[i].kind = res.id
               /\ calls[i].notes = res.notes
               /\ calls[i].ok =>
                      Range(res.notes) \subseteq
                          Range(GetTimeline(timelines, res.id).notes)

C20_Witness ==
    /\ Dispatched("Note")
    /\ router_action = Some(RouteTo(RouteTimeline(Thread("n1"))))
    /\ timeline_res = Some(NewNotes(<<1, 2>>, Thread("n1")))
    /\ HasTimeline(timelines, Thread("n1"))
    /\ GetTimeline(timelines, Thread("n1")).notes = <<2, 1>>

====
